---- MODULE Spec2Model ----
(***************************************************************************)
(* Authentication controller of the task/dashboard backend                 *)
(* (src/backend/src/controllers/authController.js): token issuance, the    *)
(* protect gate, sign-up, log-in, password update, profile update, log-out *)
(* and account deletion, as a state machine over concurrent requests, the  *)
(* user collection and a clock in whole seconds (the unit of a JWT's iat   *)
(* and exp).                                                               *)
(*                                                                         *)
(* A string that is split by the code is a sequence of its parts: an       *)
(* Authorization header is the sequence of its space-separated words, a    *)
(* JWT the sequence <<header, payload, signature>> of its dot-separated    *)
(* segments. An undefined header, cookie or token is <<>>; a body field    *)
(* that is undefined or empty (both falsy) is the empty string.            *)
(***************************************************************************)
EXTENDS Integers, Sequences, FiniteSets, TLC

VARIABLES now, users, nextId, reqs, issued, stale, out, NODE_ENV, proc, http

vars == <<now, users, nextId, reqs, issued, stale, out, NODE_ENV, proc, http>>

\* the environment, the process and the connections of the express app, which
\* no step of the controller changes
app == <<NODE_ENV, proc, http>>

\* the state of the controller, which no step of the process or of the
\* middleware stack changes
auth == <<now, users, nextId, reqs, issued, stale, out, NODE_ENV>>

(* ------------------------------ bounds --------------------------------- *)
MaxUsers == 2
MaxTime == 2
MaxReqs == 2
MaxTokens == 2
MaxConns == 2

(* --------------------------- configuration ----------------------------- *)
\* process.env.JWT_EXPIRES_IN, in seconds
JWT_EXPIRES_IN == 2
\* process.env.JWT_SECRET
JWT_SECRET == "secret"
\* a key that is not the server's secret
OtherKey == "other"
\* process.env.COOKIE_EXPIRES_IN, in days
COOKIE_EXPIRES_IN == 1
\* process.env.NODE_ENV
Modes == {"development", "production", "test"}

UserIds == 1..MaxUsers
ReqIds == 1..MaxReqs
\* the email of the n-th sign-up
EmailOf == [n \in 1..(MaxUsers + 1) |-> <<"e", n>>]
Emails == { EmailOf[n] : n \in UserIds }
NoEmail == <<>>
Passwords == {"p1", "p2"}
Undefined == <<>>
NoUser == 0

(* ------------------- the process and the express app ------------------ *)
ConnIds == 1..MaxConns

\* the process once the module has run to its end: the connection to the
\* database is pending, no server exists, only the uncaughtException listener
\* is registered. mode is what the runtime does with a rejection nobody
\* listens for: raise it as an uncaught exception, or warn and go on.
Booted(mode) ==
    [phase |-> "connecting", server |-> "none", onRejection |-> FALSE,
     exit |-> -1, fatal |-> "", mode |-> mode]

\* the process that has connected and listens
Serving ==
    [phase |-> "connected", server |-> "listening", onRejection |-> TRUE,
     exit |-> -1, fatal |-> "", mode |-> "throw"]

\* process.exit(1) on the fatal condition fatal
Exit(fatal) == [proc EXCEPT !.phase = "exited", !.exit = 1, !.fatal = fatal]

\* the layers of the app in the order of their app.use
Stack == << "helmet", "mongoSanitize", "xss", "hpp", "cors", "json", "cookieParser",
            "urlencoded", "/api/users", "/api/dashboard", "/api/tasks",
            "/api/settings", "*", "errorController" >>

\* the path at which a router is mounted, as its segments
MountPath == [layer \in {"/api/users", "/api/dashboard", "/api/tasks", "/api/settings"} |->
                 IF layer = "/api/users" THEN <<"api", "users">>
                 ELSE IF layer = "/api/dashboard" THEN <<"api", "dashboard">>
                 ELSE IF layer = "/api/tasks" THEN <<"api", "tasks">>
                 ELSE <<"api", "settings">>]

Routers == DOMAIN MountPath

\* the routes the routers define, mount path included
Routes == { <<"api", "users", "login">>, <<"api", "tasks">> }

\* the paths of the requests
Paths == Routes \cup { <<"api", "users", "nope">>, <<"api", "unknown">>, <<>> }

\* path starts with the mount path of the router
Mounted(layer, path) ==
    /\ Len(path) >= Len(MountPath[layer])
    /\ SubSeq(path, 1, Len(MountPath[layer])) = MountPath[layer]

\* some router has a route for the path
Routed(path) == \E layer \in Routers : Mounted(layer, path) /\ path \in Routes

\* the requests: a POST carries a JSON body that parses or one that does not
Requests ==
    { [method |-> m, path |-> p, body |-> "none"] : m \in {"GET", "OPTIONS"}, p \in Paths }
    \cup { [method |-> "POST", path |-> p, body |-> b] :
              p \in Paths, b \in {"json", "malformed"} }

NoReply == [status |-> 0, body |-> ""]
NotFound == [status |-> 404, body |-> "Not Found"]

\* a connection that carries no request
NoRequest ==
    [pc |-> 0, req |-> [method |-> "", path |-> <<>>, body |-> "none"],
     err |-> 0, res |-> NoReply, reached |-> {}]

\* what a layer does with a request that carries no error: "next", "error"
\* with the status of the error, or "end" with the response. handled is
\* whether the handler of a matched route answers or passes an error on.
Layer(layer, req, handled) ==
    IF layer = "cors"
    THEN IF req.method = "OPTIONS"
         THEN [kind |-> "end", err |-> 0, res |-> [status |-> 204, body |-> ""],
               by |-> "cors"]
         ELSE [kind |-> "next", err |-> 0, res |-> NoReply, by |-> ""]
    ELSE IF layer = "json"
    THEN IF req.body = "malformed"
         THEN [kind |-> "error", err |-> 400, res |-> NoReply, by |-> "json"]
         ELSE [kind |-> "next", err |-> 0, res |-> NoReply, by |-> ""]
    ELSE IF layer \in Routers
    THEN IF Mounted(layer, req.path) /\ req.path \in Routes
         THEN IF handled
              THEN [kind |-> "end", err |-> 0, res |-> [status |-> 200, body |-> "resource"],
                    by |-> "resource"]
              ELSE [kind |-> "error", err |-> 500, res |-> NoReply, by |-> "resource"]
         ELSE [kind |-> "next", err |-> 0, res |-> NoReply, by |-> ""]
    ELSE IF layer = "*"
    THEN [kind |-> "end", err |-> 0, res |-> NotFound, by |-> "*"]
    ELSE [kind |-> "next", err |-> 0, res |-> NoReply, by |-> ""]

\* the request of connection c has its response
Done(c) == http[c].res # NoReply

\* no connection carries a request: before any arrives, and when the process
\* has exited
Disconnected == [c \in ConnIds |-> NoRequest]

(* ------------------------- userModel (data layer) ---------------------- *)
\* the one-way hash the data layer stores in place of the password
Hash(p) == <<"hash", p>>

\* user.comparePasswords(candidate, stored)
comparePasswords(candidate, stored) == Hash(candidate) = stored

\* user.passwordChangedAfter(iat): was the password changed after the token's
\* issue time. passwordChangedAt is -1 while the password was never changed.
passwordChangedAfter(user, iat) ==
    /\ user.passwordChangedAt # -1
    /\ iat < user.passwordChangedAt

\* the slot of the collection that holds no document
Absent == [exists |-> FALSE, name |-> "", email |-> NoEmail, password |-> Hash(""),
           passwordChangedAt |-> -1, role |-> "", status |-> ""]

\* User.findOne({ email }): the id of the document found, NoUser for null
findOne(email) ==
    IF \E u \in UserIds : users[u].exists /\ users[u].email = email
    THEN CHOOSE u \in UserIds : users[u].exists /\ users[u].email = email
    ELSE NoUser

\* User.findById(id): the id of the document found, NoUser for null
findById(id) == IF id \in UserIds /\ users[id].exists THEN id ELSE NoUser

(* ------------------------------ jsonwebtoken --------------------------- *)
\* the HMAC of header and payload under key k
Sign(header, payload, k) == <<k, header, payload>>

\* jwt.sign({ id }, secret, { expiresIn }) at clock t
jwtSign(id, secret, expiresIn, t) ==
    LET payload == [id |-> id, iat |-> t, exp |-> t + expiresIn]
    IN  <<"HS256", payload, Sign("HS256", payload, secret)>>

\* verification that lets a token live one second longer
jwtVerify_lateExpiry(token, secret, t) ==
    IF Len(token) # 3
    THEN [ok |-> FALSE, err |-> "jwt malformed", id |-> NoUser, iat |-> 0]
    ELSE IF token[3] # Sign(token[1], token[2], secret)
    THEN [ok |-> FALSE, err |-> "invalid signature", id |-> NoUser, iat |-> 0]
    ELSE IF t > token[2].exp
    THEN [ok |-> FALSE, err |-> "jwt expired", id |-> NoUser, iat |-> 0]
    ELSE [ok |-> TRUE, err |-> "", id |-> token[2].id, iat |-> token[2].iat]

\* jwt.decode in place of jwt.verify: no check of the signature, and null for
\* a string that is no token, whose id the gate then fails to read
jwtVerify_decodeOnly(token, secret, t) ==
    IF Len(token) # 3
    THEN [ok |-> FALSE, err |-> "TypeError", id |-> NoUser, iat |-> 0]
    ELSE [ok |-> TRUE, err |-> "", id |-> token[2].id, iat |-> token[2].iat]

\* jwt.verify(token, secret) at clock t: the decoded payload, or the error
jwtVerify(token, secret, t) ==
    IF Len(token) # 3
    THEN [ok |-> FALSE, err |-> "jwt malformed", id |-> NoUser, iat |-> 0]
    ELSE IF token[3] # Sign(token[1], token[2], secret)
    THEN [ok |-> FALSE, err |-> "invalid signature", id |-> NoUser, iat |-> 0]
    ELSE IF t >= token[2].exp
    THEN [ok |-> FALSE, err |-> "jwt expired", id |-> NoUser, iat |-> 0]
    ELSE [ok |-> TRUE, err |-> "", id |-> token[2].id, iat |-> token[2].iat]

(* ------------------------------ responses ------------------------------ *)
\* the attributes of a response that sets no cookie
NoOptions == [expires |-> 0, secure |-> FALSE, sameSite |-> "", httpOnly |-> FALSE,
              path |-> ""]

\* the attributes of the jwt cookie in deployment mode mode, expiring at expires
cookieOptions(mode, expires) ==
    [expires |-> expires,
     secure |-> IF mode = "development" THEN FALSE ELSE TRUE,
     sameSite |-> IF mode = "development" THEN "Strict" ELSE "None",
     httpOnly |-> TRUE,
     path |-> "/"]

NoRes == [status |-> 0, message |-> "", token |-> Undefined, cookie |-> Undefined,
          options |-> NoOptions, user |-> NoUser]

\* next(new ErrorHandler(message, statusCode)) answered by the error handler
ErrorHandler(message, statusCode) ==
    [status |-> statusCode, message |-> message, token |-> Undefined,
     cookie |-> Undefined, options |-> NoOptions, user |-> NoUser]

\* createSendToken signing with a key that is not the secret the gate uses
createSendToken_otherKey(id, t) == jwtSign(id, OtherKey, JWT_EXPIRES_IN, t)

\* createSendToken(id) at clock t
createSendToken(id, t) == jwtSign(id, JWT_SECRET, JWT_EXPIRES_IN, t)

\* sendToken that signs one token for the body and another for the cookie
sendToken_twoTokens(user, statusCode, t) ==
    [status |-> statusCode, message |-> "success", token |-> createSendToken(user, t),
     cookie |-> createSendToken(user, t + COOKIE_EXPIRES_IN),
     options |-> cookieOptions(NODE_ENV, t + COOKIE_EXPIRES_IN * 24 * 60 * 60),
     user |-> user]

\* sendToken(user, statusCode, res) at clock t: the jwt cookie and the JSON body
sendToken(user, statusCode, t) ==
    LET token == createSendToken(user, t)
    IN  [status |-> statusCode, message |-> "success", token |-> token,
         cookie |-> token,
         options |-> cookieOptions(NODE_ENV, t + COOKIE_EXPIRES_IN * 24 * 60 * 60),
         user |-> user]

(* ------------------------------ requests ------------------------------- *)
EmptyBody == [k \in {} |-> ""]

\* a request past the gate of a protected route: the position in its handler
\* and req.user
Idle == [pc |-> "idle", user |-> NoUser]

\* what the latest step did, NoOut once that was observed: the handler, what
\* the request was like, the token the gate took, the checks the gate ran,
\* req.user, and the response
\* sent (NoRes when the step sent none)
NoOut == [op |-> "none", case |-> "", class |-> "", authorization |-> "",
          cookie |-> "", body |-> EmptyBody, target |-> NoUser, token |-> Undefined,
          steps |-> <<>>, user |-> NoUser, res |-> NoRes]

\* the latest step has been observed: the next one may be taken
Observed == out = NoOut

Free(r) == reqs[r].pc = "idle"

\* a new request takes the first free slot
FirstFree(r) == Free(r) /\ \A q \in ReqIds : q < r => ~Free(q)

Init ==
    /\ now = 0
    /\ users = [u \in UserIds |-> Absent]
    /\ nextId = 1
    /\ reqs = [r \in ReqIds |-> Idle]
    /\ issued = {}
    /\ stale = {}
    /\ out = NoOut
    /\ NODE_ENV = "production"
    /\ proc = Serving
    /\ http = Disconnected

\* the answer to a request of an open route
Answer(op, case, res) == [NoOut EXCEPT !.op = op, !.case = case, !.res = res]

\* the answer to the request in slot r, which is then finished
Finish(r, op, case, res) ==
    /\ reqs' = [reqs EXCEPT ![r] = Idle]
    /\ out' = [NoOut EXCEPT !.op = op, !.case = case, !.user = reqs[r].user,
                            !.res = res]

\* the error handler's answer to an error thrown inside a handler
errorController(name) ==
    IF name \in {"jwt malformed", "invalid signature", "jwt expired"}
    THEN ErrorHandler(name, 401)
    ELSE IF name = "ValidationError" THEN ErrorHandler(name, 400)
    ELSE ErrorHandler(name, 500)

\* the clients keep a token or cookie they are sent while they hold fewer than
\* MaxTokens, and may as well lose it
Keep(token) ==
    IF token = Undefined \/ token \in issued THEN {issued}
    ELSE IF Cardinality(issued) < MaxTokens THEN {issued, issued \cup {token}}
    ELSE {issued}

Tick ==
    /\ Observed
    /\ now < MaxTime
    /\ now' = now + 1
    /\ out' = NoOut
    /\ UNCHANGED <<users, nextId, reqs, issued, stale>>
    /\ UNCHANGED app

(* ------------------------------ sign-up -------------------------------- *)
\* the emails of the documents
Taken == { users[u].email : u \in { v \in UserIds : users[v].exists } }

\* a sign-up asks for an email that is taken or for the next new one
SignUpBodies ==
    { [name |-> "n1", email |-> e, password |-> "p1", passwordConfirm |-> c] :
        e \in Taken \cup {EmailOf[nextId]}, c \in Passwords }

\* what a sign-up request is like
SignUpCase(body) ==
    IF body.password # body.passwordConfirm THEN "mismatch"
    ELSE IF \E u \in UserIds : users[u].exists /\ users[u].email = body.email
    THEN "duplicate"
    ELSE "valid"

\* User.create(body): the data layer's validation
createValid(body) ==
    /\ body.password # ""
    /\ body.password = body.passwordConfirm
    /\ findOne(body.email) = NoUser

\* a sign-up that sends the token before User.create has validated the body
signUp_tokenFirst(body) ==
    /\ Observed
    /\ nextId <= MaxUsers
    /\ LET res == sendToken(nextId, 201, now)
       IN  /\ out' = Answer("signUp", SignUpCase(body), res)
           /\ issued' \in Keep(res.token)
    /\ IF createValid(body)
       THEN /\ users' = [users EXCEPT ![nextId] =
                    [exists |-> TRUE, name |-> body.name, email |-> body.email,
                     password |-> Hash(body.password), passwordChangedAt |-> -1,
                     role |-> "user", status |-> "active"]]
            /\ nextId' = nextId + 1
       ELSE UNCHANGED <<users, nextId>>
    /\ UNCHANGED <<now, reqs, stale>>
    /\ UNCHANGED app

\* exports.signUp
signUp(body) ==
    /\ Observed
    /\ UNCHANGED app
    /\ IF createValid(body)
       THEN /\ nextId <= MaxUsers
            /\ users' = [users EXCEPT ![nextId] =
                    [exists |-> TRUE, name |-> body.name, email |-> body.email,
                     password |-> Hash(body.password), passwordChangedAt |-> -1,
                     role |-> "user", status |-> "active"]]
            /\ nextId' = nextId + 1
            /\ LET res == sendToken(nextId, 201, now)
               IN  /\ out' = Answer("signUp", SignUpCase(body), res)
                   /\ issued' \in Keep(res.token)
            /\ UNCHANGED <<now, reqs, stale>>
       ELSE /\ out' = Answer("signUp", SignUpCase(body), errorController("ValidationError"))
            /\ UNCHANGED <<now, users, nextId, reqs, issued, stale>>

(* ------------------------------- log-in -------------------------------- *)
LogInBodies ==
    { [email |-> e, password |-> p] : e \in Emails \cup {NoEmail}, p \in Passwords \cup {""} }

\* what a log-in request is like
LogInCase(body) ==
    IF body.email = NoEmail \/ body.password = "" THEN "missing"
    ELSE IF ~\E u \in UserIds : users[u].exists /\ users[u].email = body.email
    THEN "unknownEmail"
    ELSE IF \E u \in UserIds : /\ users[u].exists /\ users[u].email = body.email
                               /\ users[u].password # Hash(body.password)
    THEN "wrongPassword"
    ELSE "match"

\* logIn answering an unknown email in words of its own
logInResponse_leaky(body) ==
    LET user == findOne(body.email)
    IN  IF body.email = NoEmail \/ body.password = ""
        THEN ErrorHandler("Please enter email and password", 401)
        ELSE IF user = NoUser
        THEN ErrorHandler("No user with this email", 404)
        ELSE IF ~comparePasswords(body.password, users[user].password)
        THEN ErrorHandler("Invalid email or password", 401)
        ELSE sendToken(user, 200, now)

\* the response of exports.logIn
logInResponse(body) ==
    LET user == findOne(body.email)
    IN  IF body.email = NoEmail \/ body.password = ""
        THEN ErrorHandler("Please enter email and password", 401)
        ELSE IF user = NoUser \/ ~comparePasswords(body.password, users[user].password)
        THEN ErrorHandler("Invalid email or password", 401)
        ELSE sendToken(user, 200, now)

\* exports.logIn
logIn(body) ==
    LET res == logInResponse(body)
    IN  /\ Observed
        /\ out' = Answer("logIn", LogInCase(body), res)
        /\ issued' \in Keep(res.token)
        /\ UNCHANGED <<now, users, nextId, reqs, stale>>
        /\ UNCHANGED app

(* ------------------------------- log-out ------------------------------- *)
\* the value logOut leaves in the jwt cookie
LoggedOut == <<"loggedout">>

\* a log-out that marks the password of every user as changed
logOut_invalidating ==
    /\ Observed
    /\ out' = Answer("logOut", "",
                     [NoRes EXCEPT !.status = 200, !.message = "success",
                                   !.cookie = LoggedOut,
                                   !.options = cookieOptions(NODE_ENV, now + 10)])
    /\ issued' \in Keep(LoggedOut)
    /\ users' = [u \in UserIds |->
                    IF users[u].exists
                    THEN [users[u] EXCEPT !.passwordChangedAt = now + 1]
                    ELSE users[u]]
    /\ UNCHANGED <<now, nextId, reqs, stale>>
    /\ UNCHANGED app

\* exports.logOut
logOut ==
    /\ Observed
    /\ out' = Answer("logOut", "",
                     [NoRes EXCEPT !.status = 200, !.message = "success",
                                   !.cookie = LoggedOut,
                                   !.options = cookieOptions(NODE_ENV, now + 10)])
    /\ issued' \in Keep(LoggedOut)
    /\ UNCHANGED <<now, users, nextId, reqs, stale>>
    /\ UNCHANGED app

(* --------------------------- the protect gate -------------------------- *)
ProtectedOps == {"updateMyPassword", "updateMe", "deleteMe"}

\* authorization.startsWith("Bearer")
StartsWithBearer(authorization) ==
    authorization # Undefined /\ Head(authorization) = "Bearer"

\* authorization.split(" ")[i - 1]
Word(authorization, i) ==
    IF i <= Len(authorization) THEN authorization[i] ELSE Undefined

\* the token the gate takes from the request
ExtractToken(authorization, cookie) ==
    IF StartsWithBearer(authorization) THEN Word(authorization, 2)
    ELSE IF cookie # Undefined THEN cookie
    ELSE Undefined

\* the tokens the clients hold
Held == { t \in issued : t # LoggedOut }

\* a token a client holds, with the id of its payload replaced and its signature kept
Retarget(token, id) == <<token[1], [token[2] EXCEPT !.id = id], token[3]>>

\* tokens no server issued: altered ones, and ones signed with another key
Fakes ==
    ({ Retarget(t, u) : t \in Held, u \in UserIds } \ Held)
    \cup { jwtSign(u, OtherKey, JWT_EXPIRES_IN, now) : u \in UserIds }

\* the Authorization header and jwt cookie of a request to a protected route
Credentials ==
    { <<Undefined, Undefined>>, <<(<<"Bearer">>), Undefined>>,
      <<(<<"Basic", "x">>), Undefined>> }
    \cup { <<(<<"Bearer", t>>), Undefined>> : t \in Held \cup Fakes }
    \cup { <<a, t>> : a \in {Undefined, <<"Bearer">>, <<"Basic", "x">>}, t \in Held }
    \cup { <<a, c>> : a \in {Undefined} \cup { <<"Bearer", t>> : t \in Held },
                      c \in issued \cap {LoggedOut} }

\* what the Authorization header of a request is like
HeaderKind(authorization) ==
    IF authorization = Undefined THEN "none"
    ELSE IF Head(authorization) # "Bearer" THEN "other"
    ELSE IF Len(authorization) = 1 THEN "bare"
    ELSE "bearer"

\* what the jwt cookie of a request is like
CookieKind(cookie) ==
    IF cookie = Undefined THEN "none"
    ELSE IF cookie = LoggedOut THEN "loggedout"
    ELSE "jwt"

\* what a token is like at clock t
TokenClass(token, t) ==
    IF token = Undefined THEN "none"
    ELSE IF Len(token) # 3 THEN "malformed"
    ELSE IF token[3] # <<JWT_SECRET, token[1], token[2]>> THEN "forged"
    ELSE IF t - token[2].iat >= JWT_EXPIRES_IN THEN "expired"
    ELSE "valid"

\* what the holder of a well-formed token is like: is the user there, and was
\* the token issued before a password change
GateCase(token) ==
    IF Len(token) # 3 THEN ""
    ELSE IF ~users[token[2].id].exists THEN "gone"
    ELSE IF token \in stale THEN "stale"
    ELSE "fresh"

\* the checks of the gate in the order of the code
GateOrder == <<"token", "verify", "user", "password">>

\* the gate without its comparison of issue time and password change
protectResult_noFreshCheck(token) ==
    LET decoded == jwtVerify(token, JWT_SECRET, now)
        currentUser == findById(decoded.id)
    IN  IF token = Undefined
        THEN [user |-> NoUser, steps |-> SubSeq(GateOrder, 1, 1),
              res |-> ErrorHandler(
                 "You are not logged in! Please log in to access this route.", 401)]
        ELSE IF ~decoded.ok
        THEN [user |-> NoUser, steps |-> SubSeq(GateOrder, 1, 2),
              res |-> errorController(decoded.err)]
        ELSE IF currentUser = NoUser
        THEN [user |-> NoUser, steps |-> SubSeq(GateOrder, 1, 3),
              res |-> ErrorHandler(
                 "The user belonging to this token no longer exists.", 401)]
        ELSE [user |-> currentUser, steps |-> SubSeq(GateOrder, 1, 3), res |-> NoRes]

\* the gate that trusts the id of a verified token without finding its user
protectResult_noUserCheck(token) ==
    LET decoded == jwtVerify(token, JWT_SECRET, now)
        currentUser == findById(decoded.id)
    IN  IF token = Undefined
        THEN [user |-> NoUser, steps |-> SubSeq(GateOrder, 1, 1),
              res |-> ErrorHandler(
                 "You are not logged in! Please log in to access this route.", 401)]
        ELSE IF ~decoded.ok
        THEN [user |-> NoUser, steps |-> SubSeq(GateOrder, 1, 2),
              res |-> errorController(decoded.err)]
        ELSE IF currentUser = NoUser
        THEN [user |-> decoded.id, steps |-> SubSeq(GateOrder, 1, 3), res |-> NoRes]
        ELSE IF passwordChangedAfter(users[currentUser], decoded.iat)
        THEN [user |-> NoUser, steps |-> GateOrder,
              res |-> ErrorHandler(
                 "User recently changed password. Please log in again.", 401)]
        ELSE [user |-> currentUser, steps |-> GateOrder, res |-> NoRes]

\* the gate that looks the user of the token's payload up before it verifies
\* the token
protectResult_lookupFirst(token) ==
    LET decoded == jwtVerify(token, JWT_SECRET, now)
        claimed == IF Len(token) = 3 THEN findById(token[2].id) ELSE NoUser
        currentUser == findById(decoded.id)
    IN  IF token = Undefined
        THEN [user |-> NoUser, steps |-> SubSeq(GateOrder, 1, 1),
              res |-> ErrorHandler(
                 "You are not logged in! Please log in to access this route.", 401)]
        ELSE IF Len(token) = 3 /\ claimed = NoUser
        THEN [user |-> NoUser, steps |-> <<"token", "user">>,
              res |-> ErrorHandler(
                 "The user belonging to this token no longer exists.", 401)]
        ELSE IF ~decoded.ok
        THEN [user |-> NoUser, steps |-> <<"token", "user", "verify">>,
              res |-> errorController(decoded.err)]
        ELSE IF passwordChangedAfter(users[currentUser], decoded.iat)
        THEN [user |-> NoUser, steps |-> <<"token", "user", "verify", "password">>,
              res |-> ErrorHandler(
                 "User recently changed password. Please log in again.", 401)]
        ELSE [user |-> currentUser, steps |-> <<"token", "user", "verify", "password">>,
              res |-> NoRes]

\* exports.protect: req.user, the checks that ran, and the error passed to
\* next() (NoRes when none)
protectResult(token) ==
    LET decoded == jwtVerify(token, JWT_SECRET, now)
        currentUser == findById(decoded.id)
    IN  IF token = Undefined
        THEN [user |-> NoUser, steps |-> SubSeq(GateOrder, 1, 1),
              res |-> ErrorHandler(
                 "You are not logged in! Please log in to access this route.", 401)]
        ELSE IF ~decoded.ok
        THEN [user |-> NoUser, steps |-> SubSeq(GateOrder, 1, 2),
              res |-> errorController(decoded.err)]
        ELSE IF currentUser = NoUser
        THEN [user |-> NoUser, steps |-> SubSeq(GateOrder, 1, 3),
              res |-> ErrorHandler(
                 "The user belonging to this token no longer exists.", 401)]
        ELSE IF passwordChangedAfter(users[currentUser], decoded.iat)
        THEN [user |-> NoUser, steps |-> GateOrder,
              res |-> ErrorHandler(
                 "User recently changed password. Please log in again.", 401)]
        ELSE [user |-> currentUser, steps |-> GateOrder, res |-> NoRes]

\* a request to a protected route, one of ops, passes through exports.protect;
\* next() without an error runs the handler of the route
protect(r, ops, authorization, cookie) ==
    /\ Observed
    /\ FirstFree(r)
    /\ LET token == ExtractToken(authorization, cookie)
           result == protectResult(token)
       IN  /\ out' = [NoOut EXCEPT !.op = "protect", !.case = GateCase(token),
                                   !.class = TokenClass(token, now),
                                   !.authorization = HeaderKind(authorization),
                                   !.cookie = CookieKind(cookie),
                                   !.token = token, !.user = result.user,
                                   !.steps = result.steps,
                                   !.res = result.res]
           /\ IF result.res = NoRes
              THEN \E op \in ops :
                      reqs' = [reqs EXCEPT ![r] = [pc |-> op, user |-> result.user]]
              ELSE UNCHANGED reqs
    /\ UNCHANGED <<now, users, nextId, issued, stale>>
    /\ UNCHANGED app

(* --------------------------- password update --------------------------- *)
\* what a password update is like when the current password is checked
PasswordCase(r, password) ==
    IF password = "" THEN "missing"
    ELSE IF ~users[reqs[r].user].exists THEN "gone"
    ELSE IF users[reqs[r].user].password # Hash(password) THEN "wrongPassword"
    ELSE "match"

\* the step of slot r that sends no response is seen
Seen(r, op, case) ==
    out' = [NoOut EXCEPT !.op = op, !.case = case, !.user = reqs[r].user]

\* the check of the current password that only asks for one
passwordRejected_onlyMissing(password, stored) == password = ""

\* !password || !(await user.comparePasswords(password, user.password))
passwordRejected(password, stored) ==
    password = "" \/ ~comparePasswords(password, stored)

\* exports.updateMyPassword, up to the check of the current password
updateMyPassword(r, password) ==
    /\ Observed
    /\ reqs[r].pc = "updateMyPassword"
    /\ LET user == findById(reqs[r].user)
           case == PasswordCase(r, password)
       IN  IF password # "" /\ user = NoUser
           THEN Finish(r, "updateMyPassword", case, errorController("TypeError"))
           ELSE IF passwordRejected(password, users[reqs[r].user].password)
           THEN Finish(r, "updateMyPassword", case,
                       ErrorHandler("Current password is incorrect", 400))
           ELSE /\ reqs' = [reqs EXCEPT ![r].pc = "save"]
                /\ Seen(r, "updateMyPassword", case)
    /\ UNCHANGED <<now, users, nextId, issued, stale>>
    /\ UNCHANGED app

\* user.save(): the data layer's validation of the new password
saveValid(newPassword, passwordConfirm) ==
    newPassword # "" /\ newPassword = passwordConfirm

\* exports.updateMyPassword: user.password = newPassword; await user.save()
updateMyPassword_save(r, newPassword, passwordConfirm) ==
    /\ Observed
    /\ reqs[r].pc = "save"
    /\ LET user == reqs[r].user
       IN  IF ~saveValid(newPassword, passwordConfirm)
           THEN /\ Finish(r, "updateMyPassword", "invalid",
                          errorController("ValidationError"))
                /\ UNCHANGED <<users, stale>>
           ELSE IF findById(user) = NoUser
           THEN /\ Finish(r, "updateMyPassword", "gone",
                          errorController("DocumentNotFoundError"))
                /\ UNCHANGED <<users, stale>>
           ELSE /\ users' = [users EXCEPT ![user].password = Hash(newPassword),
                                          ![user].passwordChangedAt = now]
                /\ stale' = stale \cup { t \in Held : t[2].id = user }
                /\ reqs' = [reqs EXCEPT ![r].pc = "send"]
                /\ Seen(r, "updateMyPassword", "saved")
    /\ UNCHANGED <<now, nextId, issued>>
    /\ UNCHANGED app

\* exports.updateMyPassword: sendToken(user, 200, res)
updateMyPassword_send(r) ==
    /\ Observed
    /\ reqs[r].pc = "send"
    /\ LET res == sendToken(reqs[r].user, 200, now)
       IN  /\ Finish(r, "updateMyPassword", "changed", res)
           /\ issued' \in Keep(res.token)
    /\ UNCHANGED <<now, users, nextId, stale>>
    /\ UNCHANGED app

(* ---------------------------- profile update --------------------------- *)
\* filterObject with its test inverted
filterObject_inverted(obj, allowedFields) ==
    [key \in { k \in DOMAIN obj : k \notin allowedFields } |-> obj[key]]

\* filterObject(obj, ...allowedFields)
filterObject(obj, allowedFields) ==
    [key \in { k \in DOMAIN obj : k \in allowedFields } |-> obj[key]]

\* the document with the fields of update set
Apply(doc, update) ==
    [f \in DOMAIN doc |-> IF f \in DOMAIN update THEN update[f] ELSE doc[f]]

\* exports.updateMe
updateMe(r, body) ==
    /\ Observed
    /\ reqs[r].pc = "updateMe"
    /\ LET filteredData == filterObject(body, {"name", "email", "status"})
           id == findById(reqs[r].user)
           duplicate == /\ "email" \in DOMAIN filteredData
                        /\ findOne(filteredData.email) \notin {NoUser, id}
           answer(res) ==
               /\ reqs' = [reqs EXCEPT ![r] = Idle]
               /\ out' = [NoOut EXCEPT !.op = "updateMe", !.body = body,
                                       !.user = reqs[r].user, !.res = res]
       IN  IF id = NoUser
           THEN /\ answer([NoRes EXCEPT !.status = 200, !.message = "success"])
                /\ UNCHANGED users
           ELSE IF duplicate
           THEN /\ answer(errorController("MongoServerError"))
                /\ UNCHANGED users
           ELSE /\ users' = [users EXCEPT ![id] = Apply(users[id], filteredData)]
                /\ answer([NoRes EXCEPT !.status = 200, !.message = "success",
                                        !.user = id])
    /\ UNCHANGED <<now, nextId, issued, stale>>
    /\ UNCHANGED app

\* the bodies of the profile updates that run beside the other requests
AuthBodies == { [name |-> "n1", role |-> "admin"] }

\* the bodies of profile updates: any of the fields, the email one that is
\* taken or a new one; a password as submitted is <<"plain", p>>
UpdateMeBodies ==
    LET value == [name |-> "x", status |-> "away", role |-> "admin",
                  password |-> <<"plain", "p2">>]
    IN  UNION { { [k \in K |-> value[k]] }
                \cup { [k \in K \cup {"email"} |->
                          IF k = "email" THEN e ELSE value[k]] :
                        e \in {EmailOf[1], EmailOf[MaxUsers + 1]} } :
                K \in SUBSET {"name", "status", "role", "password"} }

(* --------------------------- account deletion -------------------------- *)
\* a deletion that removes only the caller's own record
deleteMe_ownOnly(r, userId) ==
    /\ Observed
    /\ reqs[r].pc = "deleteMe"
    /\ reqs' = [reqs EXCEPT ![r] = Idle]
    /\ IF userId = reqs[r].user
       THEN /\ users' = [users EXCEPT ![userId] = Absent]
            /\ out' = [NoOut EXCEPT !.op = "deleteMe", !.target = userId,
                                    !.user = reqs[r].user,
                                    !.res = [NoRes EXCEPT !.status = 204,
                                                          !.message = "success"]]
       ELSE /\ users' = users
            /\ out' = [NoOut EXCEPT !.op = "deleteMe", !.target = userId,
                                    !.user = reqs[r].user,
                                    !.res = ErrorHandler("Forbidden", 403)]
    /\ UNCHANGED <<now, nextId, issued, stale>>
    /\ UNCHANGED app

\* exports.deleteMe
deleteMe(r, userId) ==
    /\ Observed
    /\ reqs[r].pc = "deleteMe"
    /\ users' = [users EXCEPT ![userId] = Absent]
    /\ reqs' = [reqs EXCEPT ![r] = Idle]
    /\ out' = [NoOut EXCEPT !.op = "deleteMe", !.target = userId,
                            !.user = reqs[r].user,
                            !.res = [NoRes EXCEPT !.status = 204, !.message = "success"]]
    /\ UNCHANGED <<now, nextId, issued, stale>>
    /\ UNCHANGED app

\* the latest step is observed
Observe ==
    /\ out # NoOut
    /\ out' = NoOut
    /\ UNCHANGED <<now, users, nextId, reqs, issued, stale>>
    /\ UNCHANGED app

Next ==
    \/ Tick
    \/ \E body \in SignUpBodies : signUp(body)
    \/ \E body \in LogInBodies : logIn(body)
    \/ logOut
    \/ \E r \in ReqIds, c \in Credentials : protect(r, ProtectedOps, c[1], c[2])
    \/ \E r \in ReqIds, password \in Passwords \cup {""} : updateMyPassword(r, password)
    \/ \E r \in ReqIds, newPassword \in {"", "p2"}, passwordConfirm \in Passwords :
          updateMyPassword_save(r, newPassword, passwordConfirm)
    \/ \E r \in ReqIds : updateMyPassword_send(r)
    \/ \E r \in ReqIds, body \in AuthBodies : updateMe(r, body)
    \/ \E r \in ReqIds, userId \in UserIds : deleteMe(r, userId)
    \/ Observe

Spec == Init /\ [][Next]_vars

(* ------------------- the profile updates on their own ------------------ *)
\* every user has signed up at second 0 and holds the token of that sign-up
InitProfile ==
    /\ now = 0
    /\ users = [u \in UserIds |->
           [exists |-> TRUE, name |-> "n1", email |-> EmailOf[u],
            password |-> Hash("p1"), passwordChangedAt |-> -1,
            role |-> "user", status |-> "active"]]
    /\ nextId = MaxUsers + 1
    /\ reqs = [r \in ReqIds |-> Idle]
    /\ issued = { createSendToken(u, 0) : u \in 1..MaxTokens \cap UserIds }
    /\ stale = {}
    /\ out = NoOut
    /\ NODE_ENV = "production"
    /\ proc = Serving
    /\ http = Disconnected

NextProfile ==
    \/ \E r \in ReqIds, c \in Credentials :
          protect(r, {"updateMe", "deleteMe"}, c[1], c[2])
    \/ \E r \in ReqIds, body \in UpdateMeBodies : updateMe(r, body)
    \/ \E r \in ReqIds, userId \in UserIds : deleteMe(r, userId)
    \/ Observe

SpecProfile == InitProfile /\ [][NextProfile]_vars

(* --------------- the open routes in every deployment mode -------------- *)
InitCookie ==
    /\ now = 0
    /\ users = [u \in UserIds |-> Absent]
    /\ nextId = 1
    /\ reqs = [r \in ReqIds |-> Idle]
    /\ issued = {}
    /\ stale = {}
    /\ out = NoOut
    /\ NODE_ENV \in Modes
    /\ proc = Serving
    /\ http = Disconnected

NextCookie ==
    \/ Tick
    \/ \E body \in SignUpBodies : signUp(body)
    \/ \E body \in LogInBodies : logIn(body)
    \/ logOut
    \/ Observe

SpecCookie == InitCookie /\ [][NextCookie]_vars

(* ------------------- the process and the middleware stack ------------- *)
\* mongoose.connect(..).then: the server is created and asked to listen, the
\* unhandledRejection listener is registered
connected ==
    /\ proc.phase = "connecting"
    /\ proc' = [proc EXCEPT !.phase = "connected", !.server = "starting",
                            !.onRejection = TRUE]
    /\ UNCHANGED http
    /\ UNCHANGED auth

\* a failed connection that is logged while the server is started all the same
connectFailed_servesAnyway ==
    /\ proc.phase = "connecting"
    /\ proc' = [proc EXCEPT !.phase = "connected", !.server = "starting",
                            !.fatal = "connectFailed"]
    /\ UNCHANGED http
    /\ UNCHANGED auth

\* mongoose.connect(..).catch
connectFailed ==
    /\ proc.phase = "connecting"
    /\ proc' = Exit("connectFailed")
    /\ http' = Disconnected
    /\ UNCHANGED auth

\* the callback of server.listen
listening ==
    /\ proc.phase = "connected"
    /\ proc.server = "starting"
    /\ proc' = [proc EXCEPT !.server = "listening"]
    /\ UNCHANGED http
    /\ UNCHANGED auth

\* process.on("uncaughtException")
uncaughtException ==
    /\ proc.phase # "exited"
    /\ proc' = Exit("uncaughtException")
    /\ http' = Disconnected
    /\ UNCHANGED auth

\* a promise is rejected and nothing handles it: the listener registered after
\* the connection closes the server; without it the runtime raises the
\* rejection as an uncaught exception, or warns and goes on
unhandledRejection ==
    /\ proc.phase # "exited"
    /\ proc' = IF proc.onRejection
               THEN [proc EXCEPT !.phase = "closing", !.server = "closed",
                                 !.fatal = "unhandledRejection"]
               ELSE IF proc.mode = "throw"
               THEN Exit("unhandledRejection")
               ELSE [proc EXCEPT !.fatal = "unhandledRejection"]
    /\ http' = IF proc'.phase = "exited" THEN Disconnected ELSE http
    /\ UNCHANGED auth

\* the callback of server.close, once no connection is left
closed ==
    /\ proc.phase = "closing"
    /\ http = Disconnected
    /\ proc' = [proc EXCEPT !.phase = "exited", !.exit = 1]
    /\ UNCHANGED http
    /\ UNCHANGED auth

\* a request arrives on a new connection of the listening server
receive(c, req) ==
    /\ proc.phase = "connected"
    /\ proc.server = "listening"
    /\ http[c] = NoRequest
    /\ \A d \in ConnIds : d < c => http[d] # NoRequest
    /\ http' = [http EXCEPT ![c] = [NoRequest EXCEPT !.pc = 1, !.req = req]]
    /\ UNCHANGED proc
    /\ UNCHANGED auth

\* the next layer of the stack gets the request of connection c: a request
\* that carries an error skips every layer but the error handler
dispatch(c, handled) ==
    /\ proc.phase # "exited"
    /\ http[c].pc \in 1..Len(Stack)
    /\ ~Done(c)
    /\ LET layer == Stack[http[c].pc]
           step == Layer(layer, http[c].req, handled)
       IN  http' = [http EXCEPT ![c] =
             IF http[c].err # 0
             THEN IF layer = "errorController"
                  THEN [@ EXCEPT !.res = [status |-> http[c].err, body |-> "error"],
                                 !.reached = @ \cup {"errorController"}]
                  ELSE [@ EXCEPT !.pc = @ + 1]
             ELSE IF step.kind = "end"
             THEN [@ EXCEPT !.res = step.res, !.reached = @ \cup {step.by}]
             ELSE IF step.kind = "error"
             THEN [@ EXCEPT !.pc = @ + 1, !.err = step.err,
                            !.reached = @ \cup {step.by}]
             ELSE [@ EXCEPT !.pc = @ + 1]]
    /\ UNCHANGED proc
    /\ UNCHANGED auth

\* the response of connection c is sent and the connection ends
finish(c) ==
    /\ proc.phase # "exited"
    /\ Done(c)
    /\ http' = [http EXCEPT ![c] = NoRequest]
    /\ UNCHANGED proc
    /\ UNCHANGED auth

InitApp ==
    /\ now = 0
    /\ users = [u \in UserIds |-> Absent]
    /\ nextId = 1
    /\ reqs = [r \in ReqIds |-> Idle]
    /\ issued = {}
    /\ stale = {}
    /\ out = NoOut
    /\ NODE_ENV = "production"
    /\ \E mode \in {"throw", "warn"} : proc = Booted(mode)
    /\ http = Disconnected

NextApp ==
    \/ connected
    \/ connectFailed
    \/ listening
    \/ uncaughtException
    \/ unhandledRejection
    \/ closed
    \/ \E c \in ConnIds, req \in Requests : receive(c, req)
    \/ \E c \in ConnIds, handled \in BOOLEAN : dispatch(c, handled)
    \/ \E c \in ConnIds : finish(c)

SpecApp == InitApp /\ [][NextApp]_vars

(* ------------------------------- claims -------------------------------- *)
NotLoggedIn == "You are not logged in! Please log in to access this route."

\* C1: a request that presents an unexpired token of an existing user, issued
\* before a password change of that user that is complete, is rejected with
\* 401 and its req.user is not set.
C1_StaleTokenRejected ==
    (out.op = "protect" /\ out.class = "valid" /\ out.case = "stale")
        => (out.res.status = 401 /\ out.user = NoUser)

\* C2: the gate ends a request either authorized (no error, req.user set, the
\* handler entered) or rejected with 401 (req.user not set, no handler
\* entered), and authorized only if a token was found, it verified and is
\* unexpired, its user exists and the password was not changed after its issue
\* time.
C2_GateOutcome ==
    [][out'.op = "protect" =>
        LET token == out'.token
            authorized == out'.res = NoRes
            rejected == out'.res.status = 401
        IN  /\ authorized # rejected
            /\ authorized =>
                 /\ token # Undefined
                 /\ out'.class = "valid"
                 /\ users[token[2].id].exists
                 /\ ~(users[token[2].id].passwordChangedAt > token[2].iat)
                 /\ out'.user = token[2].id
                 /\ \E r \in ReqIds :
                       /\ reqs[r].pc = "idle"
                       /\ reqs'[r].pc \in ProtectedOps
                       /\ reqs'[r].user = out'.user
                       /\ \A q \in ReqIds \ {r} : reqs'[q] = reqs[q]
            /\ rejected => out'.user = NoUser /\ reqs' = reqs]_vars

C2_Witness ==
    /\ out.op = "protect" /\ out.res = NoRes /\ out.user # NoUser
    /\ users[out.user].passwordChangedAt # -1

\* C3: the gate answers 'not logged in' exactly when the request carries
\* neither a Bearer token nor a jwt cookie.
C3_NotLoggedInIffNoCredentials ==
    out.op = "protect" =>
        ((out.res.message = NotLoggedIn)
            <=> (out.authorization # "bearer" /\ out.cookie = "none"))

\* C4: a log-in with an unknown email and one with a known email and a wrong
\* password get the same response: 401, 'Invalid email or password', no token
\* and no cookie; so do any two such requests in any state.
C4_LogInIndistinguishable ==
    /\ (out.op = "logIn" /\ out.case \in {"unknownEmail", "wrongPassword"})
          => out.res = [status |-> 401, message |-> "Invalid email or password",
                        token |-> Undefined, cookie |-> Undefined,
                        options |-> NoOptions, user |-> NoUser]
    /\ Observed =>
          \A b1, b2 \in LogInBodies :
             ({LogInCase(b1), LogInCase(b2)} \subseteq {"unknownEmail", "wrongPassword"})
                 => logInResponse(b1) = logInResponse(b2)

C4_Witness ==
    /\ out.op = "logIn" /\ out.case = "wrongPassword"
    /\ \E b \in LogInBodies : LogInCase(b) = "unknownEmail"

\* C5: a profile update sets the fields name, email and status that the body
\* holds to the body's values and leaves every other field of the document,
\* and every other document, as it was.
C5_UpdateMeFrame ==
    [][out'.op = "updateMe" =>
        LET body == out'.body
            u == out'.user
            allowed == {"name", "email", "status"}
        IN  /\ \A v \in UserIds \ {u} : users'[v] = users[v]
            /\ IF out'.res.status = 200 /\ users[u].exists
               THEN \A f \in DOMAIN users[u] :
                       users'[u][f] = IF f \in DOMAIN body /\ f \in allowed
                                      THEN body[f] ELSE users[u][f]
               ELSE users' = users]_vars

C5_Witness ==
    /\ out.op = "updateMe" /\ out.res.status = 200 /\ out.res.user # NoUser
    /\ {"name", "role", "password"} \subseteq DOMAIN out.body
    /\ users[out.user].name = "x"
    /\ users[out.user].role = "user"
    /\ users[out.user].password = Hash("p1")

\* C6: a password update whose current password is missing or does not match
\* the stored hash is answered 400 with no token and no cookie, goes no
\* further, and leaves the documents and the standing of every token as they
\* were.
C6_WrongCurrentPassword ==
    [][(out'.op = "updateMyPassword" /\ out'.case \in {"missing", "wrongPassword"}) =>
        /\ out'.res.status = 400
        /\ out'.res.token = Undefined
        /\ out'.res.cookie = Undefined
        /\ \A r \in ReqIds : reqs'[r].pc \notin {"save", "send"} \/ reqs'[r] = reqs[r]
        /\ users' = users
        /\ issued' = issued
        /\ stale' = stale]_vars

C6_Witness ==
    /\ out.op = "updateMyPassword" /\ out.case = "wrongPassword"
    /\ out.res.status = 400
    /\ \E t \in Held : t[2].id = out.user /\ t \notin stale

\* C7: the token that a password update sends back passes the gate, the
\* timestamp of the save never makes it count as issued before the change,
\* and every token issued before the change is rejected.
C7_ReissuedTokenFresh ==
    /\ (out.op = "updateMyPassword" /\ out.case = "changed" /\ users[out.user].exists)
          => /\ protectResult(out.res.token).user = out.user
             /\ ~passwordChangedAfter(users[out.user], out.res.token[2].iat)
    /\ (out.op = "protect" /\ out.class = "valid" /\ out.case = "stale")
          => out.res.status = 401

\* C8: a request whose token is presented JWT_EXPIRES_IN seconds or more after
\* its issue is rejected with 401 and its req.user is not set, whether or not
\* the user is there or has changed password.
C8_ExpiredTokenRejected ==
    (out.op = "protect" /\ out.class = "expired")
        => (out.res.status = 401 /\ out.user = NoUser)

C8_Witness ==
    /\ out.op = "protect" /\ out.class = "expired" /\ out.res.status = 401
    /\ out.case \in {"gone", "stale"}

\* C9: a token sent in a response verifies under the secret at every second
\* before its expiry and decodes to the id of the user of that response, and
\* the gate sets req.user to the id the token was issued for.
C9_RoundTrip ==
    /\ out.res.token # Undefined =>
          \A t \in now..MaxTime :
             t - now < JWT_EXPIRES_IN =>
                LET decoded == jwtVerify(out.res.token, JWT_SECRET, t)
                IN  decoded.ok /\ decoded.id = out.res.user /\ decoded.iat = now
    /\ (out.op = "protect" /\ out.res = NoRes) =>
          /\ out.token \in Held
          /\ out.user = out.token[2].id

C9_Witness ==
    /\ out.op = "protect" /\ out.res = NoRes
    /\ out.token \in Held
    /\ out.token[2].iat < now
    /\ \E u \in UserIds \ {out.user} : users[u].exists

\* C10: a request to a protected route that presents the cookie left by a
\* log-out, and no Authorization header, is rejected with 401.
C10_LoggedOutCookieRejected ==
    (out.op = "protect" /\ out.cookie = "loggedout" /\ out.authorization = "none")
        => (out.res.status = 401 /\ out.user = NoUser)

C10_Witness ==
    /\ out.op = "protect" /\ out.cookie = "loggedout" /\ out.authorization = "none"
    /\ out.res.status = 401
    /\ LoggedOut \in issued

\* C11: a log-out writes no user record and revokes nothing: every token the
\* clients hold gets from the gate after the log-out the answer it got before.
C11_LogOutStateless ==
    [][out'.op = "logOut" =>
        /\ users' = users
        /\ stale' = stale
        /\ Held' = Held
        /\ \A t \in Held : protectResult(t)' = protectResult(t)]_vars

C11_Witness ==
    /\ out.op = "logOut"
    /\ LoggedOut \in issued
    /\ \E t \in Held : protectResult(t).user = t[2].id

UserGone == "The user belonging to this token no longer exists."

\* C12 (as stated): every gate check with a token issued for a user whose record
\* was deleted is rejected with 'user no longer exists'.
C12_DeletedUserMessage ==
    (out.op = "protect" /\ out.token \in Held /\ out.case = "gone")
        => out.res.message = UserGone

\* C12 (amended): every gate check with a token issued for a user whose record
\* was deleted is rejected with 401 and never authorized; the rejection is
\* 'user no longer exists' while the token is unexpired and 'jwt expired' once
\* it has expired.
C12_DeletedUserRejected ==
    (out.op = "protect" /\ out.token \in Held /\ out.case = "gone")
        => /\ out.res.status = 401
           /\ out.user = NoUser
           /\ out.class \in {"valid", "expired"}
           /\ out.class = "valid" => out.res.message = UserGone
           /\ out.class = "expired" => out.res.message = "jwt expired"

C12_Witness ==
    /\ out.op = "protect" /\ out.token \in Held /\ out.case = "gone"
    /\ out.class = "valid"
    /\ out.res.message = UserGone
    /\ \E r \in ReqIds : reqs[r].pc # "idle"

\* C13: a sign-up whose password and passwordConfirm differ creates no user
\* record, sends no token and sets no jwt cookie; a sign-up answers 201 or
\* sends a token only in the step in which User.create has stored the user of
\* that response.
C13_SignUpMismatch ==
    [][out'.op = "signUp" =>
        /\ out'.case = "mismatch" =>
              /\ users' = users /\ nextId' = nextId /\ issued' = issued
              /\ out'.res.status \notin {0, 200, 201}
              /\ out'.res.token = Undefined
              /\ out'.res.cookie = Undefined
        /\ (out'.res.status = 201 \/ out'.res.token # Undefined) =>
              /\ out'.res.status = 201
              /\ out'.res.user \in UserIds
              /\ ~users[out'.res.user].exists
              /\ users'[out'.res.user].exists
              /\ \A u \in UserIds \ {out'.res.user} : users'[u] = users[u]]_vars

C13_Witness ==
    /\ out.op = "signUp" /\ out.case = "mismatch"
    /\ out.res.status = 400
    /\ \E u \in UserIds : users[u].exists
    /\ \E u \in UserIds : ~users[u].exists

\* how strict a sameSite attribute is
SameSiteRank == [s \in {"None", "Lax", "Strict"} |->
                    IF s = "Strict" THEN 2 ELSE IF s = "Lax" THEN 1 ELSE 0]

\* C14: every jwt cookie a response sets has httpOnly and path /, and outside
\* development mode its secure and sameSite attributes are at least as strict
\* as those of development mode.
C14_CookieAttributes ==
    out.res.cookie # Undefined =>
        LET options == out.res.options
            development == cookieOptions("development", options.expires)
        IN  /\ options.httpOnly
            /\ options.path = "/"
            /\ NODE_ENV # "development" =>
                  /\ development.secure => options.secure
                  /\ SameSiteRank[options.sameSite] >= SameSiteRank[development.sameSite]

\* C15: a deleteMe step removes the record named by the userId parameter,
\* whoever the authenticated caller is, leaves every other record alone and
\* answers 204; after it the gate rejects every token of the removed user.
C15_DeleteUnconditional ==
    [][out'.op = "deleteMe" =>
        /\ out'.res.status = 204
        /\ ~users'[out'.target].exists
        /\ \A u \in UserIds \ {out'.target} : users'[u] = users[u]
        /\ \A t \in Held :
              t[2].id = out'.target =>
                 LET result == protectResult(t)'
                 IN  result.res.status = 401 /\ result.user = NoUser]_vars

C15_Witness ==
    /\ out.op = "deleteMe"
    /\ out.res.status = 204
    /\ out.user # out.target
    /\ users[out.user].exists
    /\ \E t \in Held : /\ t[2].id = out.target
                       /\ TokenClass(t, now) = "valid"
                       /\ protectResult(t).res.message = UserGone

\* C16: a request whose path no router has a route for is answered with 404
\* and the body "Not Found", and is handled neither by a resource handler nor
\* by the error handler.
C16_NotFoundFallback ==
    \A c \in ConnIds :
        (Done(c) /\ ~Routed(http[c].req.path)) =>
            /\ http[c].res = NotFound
            /\ http[c].reached \cap {"resource", "errorController"} = {}

\* C17: once an uncaught exception, an unhandled rejection or a failed
\* connection to the database has happened, the process has exited with a
\* non-zero code or is closing its server in order to exit.
C17_FatalExits ==
    proc.fatal # "" =>
        /\ proc.phase \in {"closing", "exited"}
        /\ proc.phase = "exited" => proc.exit \notin {-1, 0}

\* C19: a server exists only after the connection to the database has
\* succeeded, and it starts to listen only from there; a failed connection
\* ends the process with code 1 and without a server; an exited process takes
\* no further step.
C19_ListenAfterConnect ==
    [][/\ proc'.server # "none" => (proc'.onRejection /\ proc'.fatal # "connectFailed")
       /\ (proc'.server = "listening" /\ proc.server # "listening") =>
             (proc.phase = "connected" /\ proc.server = "starting")
       /\ proc'.fatal = "connectFailed" =>
             (proc'.phase = "exited" /\ proc'.exit = 1 /\ proc'.server = "none")
       /\ proc.phase = "exited" => (proc' = proc /\ http' = http)]_vars

C19_Witness ==
    /\ proc.phase = "connected"
    /\ proc.server = "listening"
    /\ \E c \in ConnIds : Done(c) /\ http[c].res.status = 200

\* C18: the gate runs its checks in the order token, verify, user, password
\* and stops at the first that fails: the checks that ran are a prefix of that
\* order, a rejection is that of the last check that ran, whatever later
\* checks would have found, and an authorized request has passed all four.
C18_GateOrder ==
    out.op = "protect" =>
        /\ \E n \in 1..Len(GateOrder) : out.steps = SubSeq(GateOrder, 1, n)
        /\ out.class = "none" <=> Len(out.steps) = 1
        /\ out.class \in {"malformed", "forged", "expired"} <=> Len(out.steps) = 2
        /\ (out.class = "valid" /\ out.case = "gone") <=> Len(out.steps) = 3
        /\ Len(out.steps) = 1 => out.res.message = NotLoggedIn
        /\ Len(out.steps) = 2 =>
              out.res.message \in {"jwt malformed", "invalid signature", "jwt expired"}
        /\ Len(out.steps) = 3 => out.res.message = UserGone
        /\ Len(out.steps) = 4 =>
              \/ out.res = NoRes
              \/ out.res.message = "User recently changed password. Please log in again."
        /\ out.res # NoRes => out.res.status = 401

C18_Witness ==
    /\ out.op = "protect"
    /\ out.class = "expired"
    /\ out.case = "gone"
    /\ out.steps = <<"token", "verify">>
    /\ out.res.message = "jwt expired"

\* the operations that issue tokens
IssuingOps == {"signUp", "logIn", "updateMyPassword"}

\* C20: a response of signUp, logIn or updateMyPassword that sends a token sets
\* the jwt cookie to that same token, whose payload holds the id of the user of
\* the response; every other response of these operations sets no jwt cookie
\* and sends no token.
C20_CookieIsBodyToken ==
    out.op \in IssuingOps =>
        IF out.res.status \in {200, 201}
        THEN /\ out.res.token # Undefined
             /\ out.res.cookie = out.res.token
             /\ out.res.user \in UserIds
             /\ out.res.token[2].id = out.res.user
             /\ out.op = "updateMyPassword" => out.res.user = out.user
        ELSE /\ out.res.cookie = Undefined
             /\ out.res.token = Undefined

C20_Witness ==
    /\ out.op = "updateMyPassword"
    /\ out.res.status = 200
    /\ out.res.cookie = out.res.token
    /\ out.res.token[2].id = out.user
    /\ out.res.token[2].iat > 0
====
